---- MODULE Spec2Model ----
(***************************************************************************)
(* Model of the animated rectangle scene of                                *)
(* "Dynamic Multi-Color Rectangle Motion & Jump Animation in OpenGL1"      *)
(* (src/main.cpp and its copy "main (2).cpp", whose generateRectangles,    *)
(* updateMovingRectanglePosition and render loop are the same code).       *)
(*                                                                         *)
(* Numbers.  The source computes in float.  The model computes in exact    *)
(* fixed-point arithmetic:                                                 *)
(*   - a coordinate, colour component or factor v is the integer v * ONE   *)
(*     (ONE = 12000 makes every literal of the source, and every value     *)
(*     1 - |d| / jumpRadius on the grid below, an integer);                *)
(*   - a time is a whole number of ticks of 1/40 second, so that one tick  *)
(*     moves x by exactly 0.01 (120 units).                                *)
(* Only sin and the literal 3.14159f are not exact: see sinFx.             *)
(***************************************************************************)
EXTENDS Integers, Sequences, FiniteSets, TLC

\* ------------------------------------------------------------------ bounds
\* largest time (ticks) handed to updateMovingRectanglePosition in SpecEval
MaxTime == 460
\* largest value (ticks) of the time source in Spec
MaxClock == 200

\* ------------------------------------------------------- number representation
\* the integer that stands for the float 1.0f
ONE == 12000

\* fabs
fabs(v) == IF v < 0 THEN -v ELSE v

\* fmod(a, b): a - b * trunc(a / b); the result has the sign of a
fmod(a, b) == IF a >= 0 THEN a % b ELSE -((-a) % b)

\* the literal 3.14159f (37699.08 units, cut to a unit; below pi = 37699.11)
PI_LITERAL == 37699

\* pi itself, as the library's argument reduction uses it
PI_FX == 37699

\* the sine series on [0, pi/2]: r - r^3/3! + r^5/5! - r^7/7! + r^9/9!
sinSeries(r) ==
    LET r2 == (r * r) \div ONE
        t3 == (r * r2) \div (6 * ONE)
        t5 == (t3 * r2) \div (20 * ONE)
        t7 == (t5 * r2) \div (42 * ONE)
        t9 == (t7 * r2) \div (72 * ONE)
    IN  r - t3 + t5 - t7 + t9

\* sin(a) for an angle a of any sign, to within 2 units (1.6e-4)
RECURSIVE sinFx(_)
sinFx(a) ==
    IF a < 0 THEN -sinFx(-a)
    ELSE IF a >= 2 * PI_FX THEN sinFx(a - 2 * PI_FX)
    ELSE IF a > PI_FX THEN -sinFx(a - PI_FX)
    ELSE IF 2 * a > PI_FX THEN sinSeries(PI_FX - a)
    ELSE sinSeries(a)

\* glm::vec3
vec3(x, y, z) == [x |-> x, y |-> y, z |-> z]

\* ---------------------------------------------------------- generateRectangles
stationaryColors ==
    << vec3(10800, 1200, 1200),     \* Red    (0.9, 0.1, 0.1)
       vec3(1200, 10800, 1200),     \* Green  (0.1, 0.9, 0.1)
       vec3(1200, 2400, 11400),     \* Blue   (0.1, 0.2, 0.95)
       vec3(12000, 9600, 0) >>      \* Yellow (1.0, 0.8, 0.0)

movingColors ==
    << vec3(10800, 0, 10800),       \* Magenta (0.9, 0.0, 0.9)
       vec3(0, 10800, 10800),       \* Cyan    (0.0, 0.9, 0.9)
       vec3(12000, 5400, 0),        \* Orange  (1.0, 0.45, 0.0)
       vec3(6000, 0, 12000) >>      \* Purple  (0.5, 0.0, 1.0)

\* float spacing = 0.45f
spacing == 5400

\* variant: the spacing is counted from 1, -0.7f + (i + 1) * spacing
stationaryRectangleFromOne(i) ==
    [ position     |-> vec3(-8400 + (i + 1) * spacing, -6000, 0),
      color        |-> stationaryColors[i + 1],
      width        |-> 1440,
      height       |-> 2160,
      isStationary |-> TRUE ]

\* the first loop: push_back of the stationary rectangle i (0-based)
stationaryRectangle(i) ==
    [ position     |-> vec3(-8400 + i * spacing, -6000, 0),
      color        |-> stationaryColors[i + 1],
      width        |-> 1440,
      height       |-> 2160,
      isStationary |-> TRUE ]

\* the second loop: push_back of the moving rectangle i (0-based)
movingRectangle(i) ==
    [ position     |-> vec3(-14400, 2400, 0),
      color        |-> movingColors[i + 1],
      width        |-> 1440,
      height       |-> 1800,
      isStationary |-> FALSE ]

\* variant: the two loops in the other order
generateRectanglesMovingFirst ==
    [i \in 1..4 |-> movingRectangle(i - 1)] \o
    [i \in 1..4 |-> stationaryRectangle(i - 1)]

\* the vector returned: entry k of the model is element k - 1 of the vector
generateRectangles ==
    [i \in 1..4 |-> stationaryRectangle(i - 1)] \o
    [i \in 1..4 |-> movingRectangle(i - 1)]

\* ------------------------------------------------ updateMovingRectanglePosition
\* float cycleTime = 6.0f (ticks)
cycleTime == 240
\* float delayBetweenRectangles = 1.5f (ticks)
delayBetweenRectangles == 60
\* float baseY = 0.2f
baseY == 2400
\* float jumpHeight = 0.35f
jumpHeight == 4200
\* float jumpRadius = 0.12f
jumpRadius == 1440
\* std::vector<float> stationaryPositions = {-0.7f, -0.25f, 0.2f, 0.65f}
stationaryPositions == << -8400, -3000, 2400, 7800 >>

\* variant: the delay is not multiplied by the index
adjustedTimeOfNoIndex(time, rectIndex) == time - delayBetweenRectangles

\* adjustedTime = time - (rectIndex * delayBetweenRectangles)
adjustedTimeOf(time, rectIndex) == time - (rectIndex * delayBetweenRectangles)

\* variant: the fmod is left out
cycleTimeOfNoMod(adjustedTime) == adjustedTime

\* adjustedTime = fmod(adjustedTime, cycleTime)
cycleTimeOf(adjustedTime) == fmod(adjustedTime, cycleTime)

\* variant: the entity travels from 1.2 down to -1.2
xBeforeGuardReversed(adjustedTime) ==
    14400 - (adjustedTime * 28800) \div cycleTime

\* variant: the progress is taken over the delay, not over the cycle
xBeforeGuardOverDelay(adjustedTime) ==
    -14400 + (adjustedTime * 28800) \div delayBetweenRectangles

\* x = -1.2f + (adjustedTime / cycleTime) * 2.4f, before the guard
xBeforeGuard(adjustedTime) == -14400 + (adjustedTime * 28800) \div cycleTime

\* if (x > 1.2f) x = -1.2f
xGuard(x) == IF x > 14400 THEN -14400 ELSE x

\* variant: a full sine period over the radius, sin(jumpFactor * 2 * 3.14159f)
jumpOffsetFullPeriod(x, stationaryX) ==
    LET jumpFactor == ONE - (fabs(x - stationaryX) * ONE) \div jumpRadius
    IN  (jumpHeight * sinFx((jumpFactor * 2 * PI_LITERAL) \div ONE)) \div ONE

\* jumpHeight * sin(jumpFactor * 3.14159f) for one obstacle
jumpOffset(x, stationaryX) ==
    LET jumpFactor == ONE - (fabs(x - stationaryX) * ONE) \div jumpRadius
    IN  (jumpHeight * sinFx((jumpFactor * PI_LITERAL) \div ONE)) \div ONE

\* variant: the break stands after the if, so only the first obstacle is tried
jumpLoopBreakAlways(x, y, k) ==
    IF k > Len(stationaryPositions) THEN y
    ELSE IF fabs(x - stationaryPositions[k]) < jumpRadius
         THEN y + jumpOffset(x, stationaryPositions[k])
         ELSE y

\* the range-for over stationaryPositions from element k on, with its break
RECURSIVE jumpLoop(_, _, _)
jumpLoop(x, y, k) ==
    IF k > Len(stationaryPositions) THEN y
    ELSE IF fabs(x - stationaryPositions[k]) < jumpRadius
         THEN y + jumpOffset(x, stationaryPositions[k])
         ELSE jumpLoop(x, y, k + 1)

\* whether a call reaches the assignment of: if (x > 1.2f) x = -1.2f
guardTaken(time, rectIndex) ==
    /\ adjustedTimeOf(time, rectIndex) >= 0
    /\ xBeforeGuard(cycleTimeOf(adjustedTimeOf(time, rectIndex))) > 14400

updateMovingRectanglePosition(rect, time, rectIndex) ==
    LET adjustedTime == adjustedTimeOf(time, rectIndex) IN
    IF adjustedTime < 0 THEN vec3(-14400, 2400, 0)
    ELSE LET x == xGuard(xBeforeGuard(cycleTimeOf(adjustedTime)))
         IN  vec3(x, jumpLoop(x, baseY, 1), 0)

\* ------------------------------------------------------------------- state
VARIABLES
    rectangles,       \* main: std::vector<Rectangle> rectangles
    clock,            \* the time source, glfwGetTime()
    shouldClose,      \* the window's close flag
    pc,               \* main: "loop" (while test), "draw" (in the for), "done"
    time,             \* main: float time of the current frame
    i,                \* main: the for loop's index
    movingRectIndex,  \* main: int movingRectIndex
    calls,            \* the calls of updateMovingRectanglePosition of this frame
    drawn,            \* the (position, colour) pairs drawn in this frame
    ePc,              \* evaluation harness: "ready" or "returned"
    eIndex,           \* evaluation harness: rectIndex argument
    eTime,            \* evaluation harness: time argument
    ePos,             \* evaluation harness: the value returned
    eGuard            \* evaluation harness: the branch x > 1.2f was taken

vars == << rectangles, clock, shouldClose, pc, time, i, movingRectIndex,
           calls, drawn, ePc, eIndex, eTime, ePos, eGuard >>

mainVars == << rectangles, clock, shouldClose, pc, time, i, movingRectIndex,
               calls, drawn >>

evalVars == << ePc, eIndex, eTime, ePos, eGuard >>

\* ------------------------------------------------------------ the render loop
\* main up to the while loop: the scene is built, no frame has started
InitMain ==
    /\ rectangles = generateRectangles
    /\ clock = 0
    /\ shouldClose = FALSE
    /\ pc = "loop"
    /\ time = 0
    /\ i = 0
    /\ movingRectIndex = 0
    /\ calls = << >>
    /\ drawn = << >>

InitEvalIdle ==
    /\ ePc = "idle"
    /\ eIndex = 0
    /\ eTime = 0
    /\ ePos = vec3(0, 0, 0)
    /\ eGuard = FALSE

Init == InitMain /\ InitEvalIdle

\* the time source advances while the program runs
Tick ==
    /\ pc # "done"
    /\ clock < MaxClock
    /\ clock' = clock + 1
    /\ UNCHANGED << rectangles, shouldClose, pc, time, i, movingRectIndex,
                    calls, drawn >>
    /\ UNCHANGED evalVars

\* variant: movingRectIndex is declared before the while and never reset
FrameStartNoReset ==
    /\ pc = "loop"
    /\ ~shouldClose
    /\ \E escape \in BOOLEAN : shouldClose' = escape
    /\ time' = clock
    /\ i' = 0
    /\ calls' = << >>
    /\ drawn' = << >>
    /\ pc' = "draw"
    /\ UNCHANGED << rectangles, clock, movingRectIndex >>
    /\ UNCHANGED evalVars

\* while (!glfwWindowShouldClose(window)) { processInput(window);
\*   float time = (float)glfwGetTime(); ... int movingRectIndex = 0; for (i = 0;
FrameStart ==
    /\ pc = "loop"
    /\ ~shouldClose
    /\ \E escape \in BOOLEAN : shouldClose' = escape
    /\ time' = clock
    /\ movingRectIndex' = 0
    /\ i' = 0
    /\ calls' = << >>
    /\ drawn' = << >>
    /\ pc' = "draw"
    /\ UNCHANGED << rectangles, clock >>
    /\ UNCHANGED evalVars

\* variant: rect is a mutable reference and the new position is stored in it
DrawStepWriteBack ==
    /\ pc = "draw"
    /\ i < Len(rectangles)
    /\ LET rect == rectangles[i + 1] IN
       IF ~rect.isStationary
       THEN LET call == [entity |-> i, time |-> time,
                         rectIndex |-> movingRectIndex]
                pos == updateMovingRectanglePosition(rect, call.time,
                                                     call.rectIndex)
            IN  /\ calls' = Append(calls, call)
                /\ drawn' = Append(drawn, [pos |-> pos, color |-> rect.color])
                /\ rectangles' = [rectangles EXCEPT ![i + 1].position = pos]
                /\ movingRectIndex' = movingRectIndex + 1
       ELSE /\ drawn' = Append(drawn, [pos |-> rect.position, color |-> rect.color])
            /\ UNCHANGED << calls, movingRectIndex, rectangles >>
    /\ i' = i + 1
    /\ UNCHANGED << clock, shouldClose, pc, time >>
    /\ UNCHANGED evalVars

\* one iteration of for (int i = 0; i < rectangles.size(); ++i)
DrawStep ==
    /\ pc = "draw"
    /\ i < Len(rectangles)
    /\ LET rect == rectangles[i + 1] IN
       IF ~rect.isStationary
       THEN LET call == [entity |-> i, time |-> time,
                         rectIndex |-> movingRectIndex]
            IN  /\ calls' = Append(calls, call)
                /\ drawn' = Append(drawn,
                     [pos |-> updateMovingRectanglePosition(rect, call.time,
                                                            call.rectIndex),
                      color |-> rect.color])
            /\ movingRectIndex' = movingRectIndex + 1
       ELSE /\ drawn' = Append(drawn, [pos |-> rect.position, color |-> rect.color])
            /\ UNCHANGED << calls, movingRectIndex >>
    /\ i' = i + 1
    /\ UNCHANGED << rectangles, clock, shouldClose, pc, time >>
    /\ UNCHANGED evalVars

\* the for loop ends; glfwSwapBuffers(window); glfwPollEvents();
FrameEnd ==
    /\ pc = "draw"
    /\ i >= Len(rectangles)
    /\ \E closed \in BOOLEAN : shouldClose' = (shouldClose \/ closed)
    /\ pc' = "loop"
    /\ UNCHANGED << rectangles, clock, time, i, movingRectIndex, calls, drawn >>
    /\ UNCHANGED evalVars

\* the while test fails: cleanup and return 0
Exit ==
    /\ pc = "loop"
    /\ shouldClose
    /\ pc' = "done"
    /\ UNCHANGED << rectangles, clock, shouldClose, time, i, movingRectIndex,
                    calls, drawn >>
    /\ UNCHANGED evalVars

Next == Tick \/ FrameStart \/ DrawStep \/ FrameEnd \/ Exit

Spec == Init /\ [][Next]_vars

\* ------------------------------------- updateMovingRectanglePosition, on its own
\* the arguments: any moving index and any time of the grid up to MaxTime
InitEval ==
    /\ InitMain
    /\ ePc = "ready"
    /\ eIndex \in 0..3
    /\ eTime \in 0..MaxTime
    /\ ePos = vec3(0, 0, 0)
    /\ eGuard = FALSE

\* the call returns
Evaluate ==
    /\ ePc = "ready"
    /\ ePos' = updateMovingRectanglePosition(rectangles[5 + eIndex], eTime, eIndex)
    /\ eGuard' = guardTaken(eTime, eIndex)
    /\ ePc' = "returned"
    /\ UNCHANGED << eIndex, eTime >>
    /\ UNCHANGED mainVars

NextEval == Evaluate

SpecEval == InitEval /\ [][NextEval]_vars

\* ------------------------------------------------------------------ properties
\* the call of the harness has returned
Returned == ePc = "returned"

\* the entity has started: time >= rectIndex * 1.5 s (60 ticks)
Started == eTime >= 60 * eIndex

\* C1: for every moving index i in 0..3 and every time t with t < i * 1.5,
\* updateMovingRectanglePosition returns exactly the start position
\* (-1.2, 0.2, 0).
C1_ParkedBeforeStart ==
    (Returned /\ eTime < 60 * eIndex) =>
        ePos = [x |-> -14400, y |-> 2400, z |-> 0]

\* index 3 is asked one tick before its start, after index 2 has started
C1_Witness ==
    Returned /\ eIndex = 3 /\ eTime = 179 /\ ePos.x = -14400

\* C2: for every moving index i and every time t >= i * 1.5, the position at t
\* equals the position at t + 6.0 in all three coordinates.
C2_Periodic ==
    (Returned /\ Started) =>
        LET later == updateMovingRectanglePosition(rectangles[5 + eIndex],
                                                   eTime + 240, eIndex)
        IN  /\ ePos.x = later.x
            /\ ePos.y = later.y
            /\ ePos.z = later.z

\* a started entity, already in a later cycle, in the air beside an obstacle
C2_Witness ==
    Returned /\ Started /\ eTime >= 60 * eIndex + 240 /\ ePos.y > 2400

\* C3: for every moving index and every time t >= 0, the y returned lies in
\* [0.2, 0.2 + 0.35]: the jump term is never negative and never above 0.35.
C3_JumpBounded ==
    Returned => (ePos.y >= 2400 /\ ePos.y <= 2400 + 4200)

\* the upper bound is attained
C3_Witness ==
    Returned /\ Started /\ ePos.y = 2400 + 4200

\* C4: when a started entity's x equals an obstacle x-position exactly, the
\* y returned is baseY + JUMP_HEIGHT (0.2 + 0.35): the arc peaks at the
\* obstacle's exact x.
C4_PeakAtObstacle ==
    (Returned /\ Started /\ ePos.x \in {-8400, -3000, 2400, 7800}) =>
        ePos.y = 2400 + 4200

\* C5: for a fixed moving index and times t1 < t2, both started and in the same
\* 6.0-second cycle, x(t1) <= x(t2).
C5_MonotoneInCycle ==
    (Returned /\ Started) =>
        \A t2 \in (eTime + 1)..(eTime + 240) :
            ((eTime - 60 * eIndex) \div 240 = (t2 - 60 * eIndex) \div 240) =>
                ePos.x <= updateMovingRectanglePosition(rectangles[5 + eIndex],
                                                        t2, eIndex).x

\* a started entity in its second cycle with later times left in that cycle
C5_Witness ==
    /\ Returned /\ Started
    /\ (eTime - 60 * eIndex) \div 240 = 1
    /\ (eTime - 60 * eIndex) % 240 = 100
    /\ ePos.x = -14400 + 100 * 120

\* C6: generateRectangles returns exactly 8 entities: the first 4 stationary
\* with y = -0.5 and x = -0.7 + i * 0.45, the last 4 not stationary, all at the
\* start position (-1.2, 0.2, 0).
C6_Scene ==
    /\ Len(rectangles) = 8
    /\ \A k \in 1..4 :
        /\ rectangles[k].isStationary
        /\ rectangles[k].position.y = -6000
        /\ rectangles[k].position.x = -8400 + (k - 1) * 5400
    /\ \A k \in 5..8 :
        /\ ~rectangles[k].isStationary
        /\ rectangles[k].position = [x |-> -14400, y |-> 2400, z |-> 0]

\* the scene has been built and a whole frame of it drawn
C6_Witness ==
    pc = "draw" /\ i = 8 /\ Len(drawn) = 8 /\ Len(rectangles) = 8

\* C7: no step of the render loop changes the scene: count, order and every
\* entity's position, colour, width, height and stationary flag stay as built;
\* a moving entity's computed position is never written back.
C7_SceneFrozen == [][rectangles' = rectangles]_vars

\* a frame drew a moving entity away from its stored position
C7_Witness ==
    /\ pc = "draw" /\ i = 8
    /\ drawn[5].pos # rectangles[5].position
    /\ rectangles = generateRectangles

\* the first obstacle, in the listed order, within the radius of x (0 if none)
FirstObstacleNear(x) ==
    LET obstacles == << -8400, -3000, 2400, 7800 >>
        near == {k \in 1..4 : fabs(x - obstacles[k]) < 1440}
    IN  IF near = {} THEN 0
        ELSE CHOOSE k \in near : \A j \in near : k <= j

\* C8: for every started input the offset added to baseY comes from at most
\* one obstacle, the first in the order (-0.7, -0.25, 0.2, 0.65) with
\* |x - obstacleX| < 0.12, and is zero when none matches.
C8_FirstObstacleOnly ==
    (Returned /\ Started) =>
        LET obstacles == << -8400, -3000, 2400, 7800 >>
            first == FirstObstacleNear(ePos.x)
        IN  ePos.y - 2400 =
                IF first = 0 THEN 0 ELSE jumpOffset(ePos.x, obstacles[first])

\* a started entity lifted by the third obstacle
C8_Witness ==
    Returned /\ Started /\ FirstObstacleNear(ePos.x) = 3 /\ ePos.y > 2400

\* C9: in every frame the draw loop calls updateMovingRectanglePosition once
\* for each moving entity reached so far and never for a stationary one, with
\* indices 0, 1, 2, 3 in scene order restarting at 0 each frame, and with the
\* frame's one time value in every call; a finished frame has made 4 calls.
C9_CallsPerFrame ==
    (pc = "draw") =>
        /\ Len(calls) = Cardinality({k \in 1..i : ~rectangles[k].isStationary})
        /\ (i = 8 => Len(calls) = 4)
        /\ \A k \in 1..Len(calls) :
            /\ calls[k].rectIndex = k - 1
            /\ calls[k].entity = 4 + (k - 1)
            /\ ~rectangles[calls[k].entity + 1].isStationary
            /\ calls[k].time = time

\* a frame that started after time 0 is complete, and the time source has
\* moved on since its time was read
C9_Witness ==
    pc = "draw" /\ i = 8 /\ Len(calls) = 4 /\ time > 0 /\ clock > time

\* C10: for every moving index i and every time t >= i * 1.5 the x returned is
\* -1.2 + (((t - 1.5 i) mod 6.0) / 6.0) * 2.4, lies in [-1.2, 1.2], and the
\* branch x > 1.2 => x = -1.2 is not taken.
C10_LinearX ==
    (Returned /\ Started) =>
        /\ ePos.x = -14400 + ((eTime - 60 * eIndex) % 240) * 120
        /\ ePos.x >= -14400
        /\ ePos.x <= 14400
        /\ ~eGuard

\* the last grid point of a cycle: x is at its largest, 1.19
C10_Witness ==
    Returned /\ Started /\ (eTime - 60 * eIndex) % 240 = 239 /\ ePos.x = 14280

\* the x-coordinates of the stationary entities of the scene, in scene order
StationaryXs ==
    LET stationary == SelectSeq(rectangles, LAMBDA r : r.isStationary)
    IN  [k \in 1..Len(stationary) |-> stationary[k].position.x]

====
